---- MODULE Spec2Model ----
(***************************************************************************)
(* The documentation viewer component (src/src/components/Documentation.jsx)*)
(* as a state machine: the React state record, the load timer, the          *)
(* acknowledgment timers started by copyToClipboard, the clipboard writes   *)
(* in flight, and a clock that delivers timers when their delay elapses.    *)
(***************************************************************************)
EXTENDS Integers, Sequences, FiniteSets, TLC

\* ---------------------------------------------------------------- constants

\* setTimeout(..., 1000) in componentDidMount
LoadDelay == 1000

\* setTimeout(..., 2000) in copyToClipboard
AckDelay == 2000

\* ------------------------------------------------------------------- bounds

\* the clock advances by at most this many ms per step
TickMs == 500

\* user events and clipboard completions happen up to this time
MaxTime == 2000

\* copyToClipboard is called at most this many times
MaxCopies == 2

\* --------------------------------------------------------------- input sets

\* JavaScript null
Null == "null"

\* codeId arguments of renderCodeBlock (two of the eleven code blocks)
CodeIds == {"troubleshoot-pods", "troubleshoot-cert"}

\* the ids that have a <section id=...> anchor in the rendered document
AnchorIds ==
  {"overview", "structure", "k8s-basics", "deployment", "service", "ingress",
   "certificate", "backend-config", "kustomize", "cicd", "commands",
   "troubleshooting"}

\* ids handed to scrollToSection: two anchors and one id with no anchor
NavInputs == {"overview", "k8s-basics", "no-such-anchor"}

\* values typed into the search box, as sequences of characters
SearchInputs == {<<>>, <<"o", "v", "e", "r">>}

\* ---------------------------------------------------------------- variables

VARIABLES
  phase,            \* "constructed", "mounted" or "unmounted"
  activeSection,    \* this.state.activeSection
  searchTerm,       \* this.state.searchTerm, a sequence of characters
  isLoading,        \* this.state.isLoading
  loadingError,     \* this.state.loadingError
  isMobileMenuOpen, \* this.state.isMobileMenuOpen
  copiedCodeId,     \* this.state.copiedCodeId
  loadingTimer,     \* this.loadingTimer: [status, deadline]
  ackTimers,        \* timers started by copyToClipboard, in creation order
  pendingWrites,    \* navigator.clipboard.writeText calls not yet settled
  consoleErrors,    \* number of console.error calls
  scrolledTo,       \* the anchor scrollIntoView was last called on
  now,              \* the clock, in ms
  callLog,          \* history: the copyToClipboard calls, [id, at]
  successLog,       \* history: the clipboard writes that succeeded, [id, at]
  lastEvent         \* history: the last handler or callback that ran

uiState ==
  <<activeSection, searchTerm, isLoading, loadingError, isMobileMenuOpen,
    copiedCodeId>>

timers == <<loadingTimer, ackTimers>>

history == <<callLog, successLog>>

vars ==
  <<phase, activeSection, searchTerm, isLoading, loadingError,
    isMobileMenuOpen, copiedCodeId, loadingTimer, ackTimers, pendingWrites,
    consoleErrors, scrolledTo, now, callLog, successLog, lastEvent>>

\* ------------------------------------------------------------------ helpers

Min(S) == CHOOSE x \in S : \A y \in S : x <= y

Event(op, id) == [op |-> op, id |-> id]

\* isMobileMenuOpen as the event history records it
MenuName(open) == IF open THEN "open" ELSE "closed"

\* this.loadingTimer before componentDidMount has assigned it
NoTimer == [status |-> "none", deadline |-> 0]

\* what render() returns
View ==
  IF isLoading THEN "spinner"
  ELSE IF loadingError # Null THEN "error"
  ELSE "docs"

\* the deadlines of the timers that are still pending
TimerDeadlines ==
  (IF loadingTimer.status = "pending" THEN {loadingTimer.deadline} ELSE {})
    \cup {ackTimers[i].deadline : i \in DOMAIN ackTimers}

\* a timer whose delay has elapsed and is next to be delivered
Due(deadline) == deadline <= now /\ \A d \in TimerDeadlines : deadline <= d

\* a render without the early returns of the loading and error views
InteractiveUngated == phase = "mounted" /\ now <= MaxTime

\* the document is on screen and the user can act on it
Interactive == phase = "mounted" /\ View = "docs" /\ now <= MaxTime

\* sequence s without its i-th element
RemoveAt(s, i) == SubSeq(s, 1, i - 1) \o SubSeq(s, i + 1, Len(s))

\* ------------------------------------------------------ the section registry

\* this.sections: the registry, ids and titles as sequences of characters
\* (the icon, which nothing reads but the markup, is left out)
sections ==
  <<
    [id |->
       <<"o", "v", "e", "r", "v", "i", "e", "w">>,
     title |->
       <<"P", "r", "o", "j", "e", "c", "t", " ", "O", "v", "e", "r", "v",
         "i", "e", "w">>],
    [id |->
       <<"s", "t", "r", "u", "c", "t", "u", "r", "e">>,
     title |->
       <<"F", "o", "l", "d", "e", "r", " ", "S", "t", "r", "u", "c", "t",
         "u", "r", "e">>],
    [id |->
       <<"k", "8", "s", "-", "b", "a", "s", "i", "c", "s">>,
     title |->
       <<"K", "u", "b", "e", "r", "n", "e", "t", "e", "s", " ", "B", "a",
         "s", "i", "c", "s">>],
    [id |->
       <<"d", "e", "p", "l", "o", "y", "m", "e", "n", "t">>,
     title |->
       <<"D", "e", "p", "l", "o", "y", "m", "e", "n", "t", " ", "Y", "A",
         "M", "L">>],
    [id |->
       <<"s", "e", "r", "v", "i", "c", "e">>,
     title |->
       <<"S", "e", "r", "v", "i", "c", "e", " ", "Y", "A", "M", "L">>],
    [id |->
       <<"i", "n", "g", "r", "e", "s", "s">>,
     title |->
       <<"I", "n", "g", "r", "e", "s", "s", " ", "Y", "A", "M", "L">>],
    [id |->
       <<"c", "e", "r", "t", "i", "f", "i", "c", "a", "t", "e">>,
     title |->
       <<"S", "S", "L", " ", "C", "e", "r", "t", "i", "f", "i", "c", "a",
         "t", "e">>],
    [id |->
       <<"b", "a", "c", "k", "e", "n", "d", "-", "c", "o", "n", "f", "i",
         "g">>,
     title |->
       <<"B", "a", "c", "k", "e", "n", "d", " ", "C", "o", "n", "f", "i",
         "g">>],
    [id |->
       <<"k", "u", "s", "t", "o", "m", "i", "z", "e">>,
     title |->
       <<"K", "u", "s", "t", "o", "m", "i", "z", "e">>],
    [id |->
       <<"c", "i", "c", "d">>,
     title |->
       <<"C", "I", "/", "C", "D", " ", "W", "o", "r", "k", "f", "l", "o",
         "w", "s">>],
    [id |->
       <<"c", "o", "m", "m", "a", "n", "d", "s">>,
     title |->
       <<"C", "o", "m", "m", "o", "n", " ", "C", "o", "m", "m", "a", "n",
         "d", "s">>],
    [id |->
       <<"t", "r", "o", "u", "b", "l", "e", "s", "h", "o", "o", "t", "i",
         "n", "g">>,
     title |->
       <<"T", "r", "o", "u", "b", "l", "e", "s", "h", "o", "o", "t", "i",
         "n", "g">>]
  >>

\* a section id as the string the anchors and activeSection hold
RECURSIVE IdString(_)
IdString(chars) ==
  IF chars = <<>> THEN "" ELSE Head(chars) \o IdString(Tail(chars))

\* ---------------------------------------------------------- search by text

UpperChars ==
  <<"A", "B", "C", "D", "E", "F", "G", "H", "I", "J", "K", "L", "M",
    "N", "O", "P", "Q", "R", "S", "T", "U", "V", "W", "X", "Y", "Z">>

LowerChars ==
  <<"a", "b", "c", "d", "e", "f", "g", "h", "i", "j", "k", "l", "m",
    "n", "o", "p", "q", "r", "s", "t", "u", "v", "w", "x", "y", "z">>

\* String.prototype.toLowerCase, one character
ToLowerChar(c) ==
  IF \E i \in DOMAIN UpperChars : UpperChars[i] = c
  THEN LowerChars[CHOOSE i \in DOMAIN UpperChars : UpperChars[i] = c]
  ELSE c

\* String.prototype.toLowerCase
ToLowerCase(text) == [i \in 1..Len(text) |-> ToLowerChar(text[i])]

\* the white space String.prototype.trim removes (of the characters used here)
Whitespace == {" "}

RECURSIVE TrimStart(_)
TrimStart(text) ==
  IF text # <<>> /\ Head(text) \in Whitespace
  THEN TrimStart(Tail(text))
  ELSE text

RECURSIVE TrimEnd(_)
TrimEnd(text) ==
  IF text # <<>> /\ text[Len(text)] \in Whitespace
  THEN TrimEnd(SubSeq(text, 1, Len(text) - 1))
  ELSE text

\* String.prototype.trim
Trim(text) == TrimEnd(TrimStart(text))

\* text begins with term, character by character
StartsWith(text, term) ==
  Len(term) <= Len(text) /\ SubSeq(text, 1, Len(term)) = term

\* text begins with term read as a pattern in which "." stands for any character
StartsWithPattern(text, term) ==
  /\ Len(term) <= Len(text)
  /\ \A i \in 1..Len(term) : term[i] = "." \/ term[i] = text[i]

\* a search that reads term as a pattern instead of literal text
RECURSIVE IncludesPattern(_, _)
IncludesPattern(text, term) ==
  IF StartsWithPattern(text, term) THEN TRUE
  ELSE IF text = <<>> THEN FALSE
  ELSE IncludesPattern(Tail(text), term)

\* String.prototype.includes: term occurs in text at some position
RECURSIVE Includes(_, _)
Includes(text, term) ==
  IF StartsWith(text, term) THEN TRUE
  ELSE IF text = <<>> THEN FALSE
  ELSE Includes(Tail(text), term)

\* the filter's test with the id left out
SectionMatchesTitleOnly(section, term) ==
  Includes(ToLowerCase(section.title), term)

\* the test getFilteredSections applies to one section
SectionMatches(section, term) ==
  \/ Includes(ToLowerCase(section.title), term)
  \/ Includes(ToLowerCase(section.id), term)

\* sequence s in reverse order
RECURSIVE Reverse(_)
Reverse(s) == IF s = <<>> THEN <<>> ELSE Reverse(Tail(s)) \o <<Head(s)>>

\* a filter that collects its matches in reverse order
FilterSectionsReversed(registry, query) ==
  IF Trim(query) = <<>> THEN Reverse(registry)
  ELSE Reverse(SelectSeq(registry,
                         LAMBDA section :
                           SectionMatches(section, ToLowerCase(query))))

\* a filter that tests the query for emptiness without trimming it
FilterSectionsNoTrim(registry, query) ==
  IF query = <<>> THEN registry
  ELSE SelectSeq(registry,
                 LAMBDA section : SectionMatches(section, ToLowerCase(query)))

\* getFilteredSections, of a registry and a search term
FilterSections(registry, query) ==
  IF Trim(query) = <<>> THEN registry
  ELSE SelectSeq(registry,
                 LAMBDA section : SectionMatches(section, ToLowerCase(query)))

\* this.getFilteredSections()
GetFilteredSections == FilterSections(sections, searchTerm)

\* ------------------------------------------------- highlighting the matches
\* highlightText builds new RegExp(`(${searchTerm})`, "gi") from the raw search
\* term. The pattern syntax is modelled for the characters the search inputs
\* use: "." (any character), "*" (greedy repetition of the atom before it),
\* "(" and "[" (a group or a class the term never closes); every other
\* character of the inputs stands for itself, case-insensitively.

\* the characters of a term that open a group or a class
PatternOpeners == {"(", "["}

\* new RegExp(...) accepts the pattern: with no ")" or "]" in the term an
\* opener is never terminated, and "*" needs an atom directly before it
ValidPattern(term) ==
  /\ \A i \in 1..Len(term) : term[i] \notin PatternOpeners
  /\ \A i \in 1..Len(term) : term[i] = "*" => (i > 1 /\ term[i - 1] # "*")

\* the pattern as a sequence of atoms, each starred or not
RECURSIVE PatternItems(_)
PatternItems(term) ==
  IF term = <<>> THEN <<>>
  ELSE IF Len(term) >= 2 /\ term[2] = "*"
       THEN <<[char |-> term[1], star |-> TRUE]>>
            \o PatternItems(SubSeq(term, 3, Len(term)))
       ELSE <<[char |-> term[1], star |-> FALSE]>> \o PatternItems(Tail(term))

\* one atom against one character, under the "i" flag
AtomMatches(item, c) ==
  item.char = "." \/ ToLowerChar(item.char) = ToLowerChar(c)

\* how many characters from offset pos on the atom matches in a row
RECURSIVE Run(_, _, _)
Run(item, text, pos) ==
  IF pos < Len(text) /\ AtomMatches(item, text[pos + 1])
  THEN 1 + Run(item, text, pos + 1)
  ELSE 0

\* the result of a match attempt that fails
NoMatch == -1

\* the offset at which the backtracking match of items anchored at offset pos
\* ends, or NoMatch; a starred atom takes k repetitions, the most first
RECURSIVE MatchEnd(_, _, _)
RECURSIVE StarEnd(_, _, _, _)
MatchEnd(items, text, pos) ==
  IF items = <<>> THEN pos
  ELSE IF Head(items).star
       THEN StarEnd(items, text, pos, Run(Head(items), text, pos))
       ELSE IF pos < Len(text) /\ AtomMatches(Head(items), text[pos + 1])
            THEN MatchEnd(Tail(items), text, pos + 1)
            ELSE NoMatch

StarEnd(items, text, pos, k) ==
  LET e == MatchEnd(Tail(items), text, pos + k)
  IN  IF e # NoMatch THEN e
      ELSE IF k = 0 THEN NoMatch
      ELSE StarEnd(items, text, pos, k - 1)

\* the loop of String.prototype.split on a pattern whose one capturing group
\* is the whole pattern: p is the end of the last match, q the offset tried;
\* a match that ends at p is skipped, any other pushes the text before it and
\* the captured text
RECURSIVE SplitFrom(_, _, _, _, _)
SplitFrom(text, items, p, q, parts) ==
  IF q >= Len(text) THEN Append(parts, SubSeq(text, p + 1, Len(text)))
  ELSE LET e == MatchEnd(items, text, q)
       IN  IF e = NoMatch \/ e = p
           THEN SplitFrom(text, items, p, q + 1, parts)
           ELSE SplitFrom(text, items, e, e,
                          parts \o <<SubSeq(text, p + 1, q),
                                     SubSeq(text, q + 1, e)>>)

\* text.split(new RegExp(`(${searchTerm})`, "gi")), for a valid pattern
Split(text, term) ==
  LET items == PatternItems(term)
  IN  IF text = <<>>
      THEN IF MatchEnd(items, text, 0) # NoMatch THEN <<>> ELSE <<text>>
      ELSE SplitFrom(text, items, 0, 0, <<>>)

\* one element of the rendered result: <mark>part</mark> or the plain part
Segment(part, marked) == [content |-> part, isMatch |-> marked]

\* highlightText returned the segments
Returned(segs) == [ok |-> TRUE, segments |-> segs]

\* new RegExp threw a SyntaxError, and highlightText with it
Threw == [ok |-> FALSE, segments |-> <<>>]

\* a marking that compares a part with the term without lowering the case
MarkPartsCaseSensitive(parts, term) ==
  [i \in 1..Len(parts) |-> Segment(parts[i], parts[i] = term)]

\* parts.map(...): a part is marked when it equals the term, case aside
MarkParts(parts, term) ==
  [i \in 1..Len(parts) |->
     Segment(parts[i], ToLowerCase(parts[i]) = ToLowerCase(term))]

\* a highlighter that tests the term for emptiness without trimming it
HighlightTextNoTrim(text, term) ==
  IF term = <<>> THEN Returned(<<Segment(text, FALSE)>>)
  ELSE IF ~ValidPattern(term) THEN Threw
  ELSE Returned(MarkParts(Split(text, term), term))

\* highlightText(text, searchTerm)
HighlightText(text, term) ==
  IF Trim(term) = <<>> THEN Returned(<<Segment(text, FALSE)>>)
  ELSE IF ~ValidPattern(term) THEN Threw
  ELSE Returned(MarkParts(Split(text, term), term))

\* a sidebar list that highlights the title of every section of the registry
RenderNavUnfiltered ==
  [k \in DOMAIN sections |-> HighlightText(sections[k].title, searchTerm)]

\* the sidebar list of render: one entry for each section the filter returns,
\* showing highlightText(section.title, this.state.searchTerm)
RenderNav ==
  [k \in DOMAIN GetFilteredSections |->
     HighlightText(GetFilteredSections[k].title, searchTerm)]

\* --------------------------------------------------------------------- Init

Init ==
  /\ phase = "constructed"
  /\ activeSection = Null
  /\ searchTerm = <<>>
  /\ isLoading = TRUE
  /\ loadingError = Null
  /\ isMobileMenuOpen = FALSE
  /\ copiedCodeId = Null
  /\ loadingTimer = NoTimer
  /\ ackTimers = <<>>
  /\ pendingWrites = <<>>
  /\ consoleErrors = 0
  /\ scrolledTo = Null
  /\ now = 0
  /\ callLog = <<>>
  /\ successLog = <<>>
  /\ lastEvent = Event("constructor", Null)

\* ------------------------------------------------------------------ actions

\* componentDidMount with the setTimeout call left out
ComponentDidMountNoTimer ==
  /\ phase = "constructed"
  /\ phase' = "mounted"
  /\ lastEvent' = Event("componentDidMount", Null)
  /\ UNCHANGED <<scrolledTo, uiState, timers, pendingWrites, consoleErrors, now, history>>

\* componentDidMount: start the one-shot load timer
ComponentDidMount ==
  /\ phase = "constructed"
  /\ phase' = "mounted"
  /\ loadingTimer' = [status |-> "pending", deadline |-> now + LoadDelay]
  /\ lastEvent' = Event("componentDidMount", Null)
  /\ UNCHANGED <<scrolledTo, uiState, ackTimers, pendingWrites, consoleErrors, now,
                 history>>

\* a load timer callback that reports a timeout and leaves isLoading set
LoadingTimerFireAsError ==
  /\ loadingTimer.status = "pending"
  /\ Due(loadingTimer.deadline)
  /\ loadingTimer' = [loadingTimer EXCEPT !.status = "fired"]
  /\ loadingError' = IF phase = "mounted" THEN "Timed out" ELSE loadingError
  /\ lastEvent' = Event("loadingTimer", Null)
  /\ UNCHANGED <<scrolledTo, phase, activeSection, searchTerm, isLoading,
                 isMobileMenuOpen, copiedCodeId, ackTimers, pendingWrites,
                 consoleErrors, now, history>>

\* the load timer's callback: setState({ isLoading: false })
LoadingTimerFire ==
  /\ loadingTimer.status = "pending"
  /\ Due(loadingTimer.deadline)
  /\ loadingTimer' = [loadingTimer EXCEPT !.status = "fired"]
  /\ isLoading' = IF phase = "mounted" THEN FALSE ELSE isLoading
  /\ lastEvent' = Event("loadingTimer", Null)
  /\ UNCHANGED <<scrolledTo, phase, activeSection, searchTerm, loadingError,
                 isMobileMenuOpen, copiedCodeId, ackTimers, pendingWrites,
                 consoleErrors, now, history>>

\* componentWillUnmount with the clearTimeout call left out
ComponentWillUnmountNoClear ==
  /\ phase = "mounted"
  /\ phase' = "unmounted"
  /\ lastEvent' = Event("componentWillUnmount", Null)
  /\ UNCHANGED <<scrolledTo, uiState, timers, pendingWrites, consoleErrors, now, history>>

\* componentWillUnmount: clearTimeout(this.loadingTimer) when it is set
ComponentWillUnmount ==
  /\ phase = "mounted"
  /\ phase' = "unmounted"
  /\ loadingTimer' =
       IF loadingTimer.status = "pending"
       THEN [loadingTimer EXCEPT !.status = "cancelled"]
       ELSE loadingTimer
  /\ lastEvent' = Event("componentWillUnmount", Null)
  /\ UNCHANGED <<scrolledTo, uiState, ackTimers, pendingWrites, consoleErrors, now,
                 history>>

\* scrollToSection without the test of the element
ScrollToSectionUnchecked(id) ==
  /\ Interactive
  /\ scrolledTo' = id
  /\ activeSection' = id
  /\ isMobileMenuOpen' = FALSE
  /\ lastEvent' = Event("scrollToSection", id)
  /\ UNCHANGED <<phase, searchTerm, isLoading, loadingError, copiedCodeId,
                 timers, pendingWrites, consoleErrors, now, history>>

\* scrollToSection that leaves the mobile menu as it is
ScrollToSectionKeepsMenu(id) ==
  /\ Interactive
  /\ IF id \in AnchorIds
     THEN /\ scrolledTo' = id
          /\ activeSection' = id
     ELSE UNCHANGED <<scrolledTo, activeSection>>
  /\ lastEvent' = Event("scrollToSection", id)
  /\ UNCHANGED <<phase, searchTerm, isLoading, loadingError, isMobileMenuOpen,
                 copiedCodeId, timers, pendingWrites, consoleErrors, now,
                 history>>

\* scrollToSection that closes the mobile menu outside the test of the element
ScrollToSectionClosesAlways(id) ==
  /\ Interactive
  /\ IF id \in AnchorIds
     THEN /\ scrolledTo' = id
          /\ activeSection' = id
     ELSE UNCHANGED <<scrolledTo, activeSection>>
  /\ isMobileMenuOpen' = FALSE
  /\ lastEvent' = Event("scrollToSection", id)
  /\ UNCHANGED <<phase, searchTerm, isLoading, loadingError, copiedCodeId,
                 timers, pendingWrites, consoleErrors, now, history>>

\* scrollToSection(id): scroll and mark active when the anchor exists
ScrollToSection(id) ==
  /\ Interactive
  /\ IF id \in AnchorIds
     THEN /\ scrolledTo' = id
          /\ activeSection' = id
          /\ isMobileMenuOpen' = FALSE
     ELSE UNCHANGED <<scrolledTo, activeSection, isMobileMenuOpen>>
  /\ lastEvent' = Event("scrollToSection", id)
  /\ UNCHANGED <<phase, searchTerm, isLoading, loadingError, copiedCodeId,
                 timers, pendingWrites, consoleErrors, now, history>>

\* toggleMobileMenu that opens the menu instead of flipping it
ToggleMobileMenuOpens ==
  /\ Interactive
  /\ isMobileMenuOpen' = TRUE
  /\ lastEvent' = Event("toggleMobileMenu", MenuName(isMobileMenuOpen))
  /\ UNCHANGED <<scrolledTo, phase, activeSection, searchTerm, isLoading,
                 loadingError, copiedCodeId, timers, pendingWrites,
                 consoleErrors, now, history>>

\* toggleMobileMenu: setState(prev => !prev.isMobileMenuOpen)
ToggleMobileMenu ==
  /\ Interactive
  /\ isMobileMenuOpen' = ~isMobileMenuOpen
  /\ lastEvent' = Event("toggleMobileMenu", MenuName(isMobileMenuOpen))
  /\ UNCHANGED <<scrolledTo, phase, activeSection, searchTerm, isLoading, loadingError,
                 copiedCodeId, timers, pendingWrites, consoleErrors, now,
                 history>>

\* a closeMobileMenu that flips the menu as toggleMobileMenu does
CloseMobileMenuToggles ==
  /\ Interactive
  /\ isMobileMenuOpen' = ~isMobileMenuOpen
  /\ lastEvent' = Event("closeMobileMenu", MenuName(isMobileMenuOpen))
  /\ UNCHANGED <<scrolledTo, phase, activeSection, searchTerm, isLoading, loadingError,
                 copiedCodeId, timers, pendingWrites, consoleErrors, now,
                 history>>

\* closeMobileMenu: setState({ isMobileMenuOpen: false })
CloseMobileMenu ==
  /\ Interactive
  /\ isMobileMenuOpen' = FALSE
  /\ lastEvent' = Event("closeMobileMenu", MenuName(isMobileMenuOpen))
  /\ UNCHANGED <<scrolledTo, phase, activeSection, searchTerm, isLoading, loadingError,
                 copiedCodeId, timers, pendingWrites, consoleErrors, now,
                 history>>

\* handleSearchChange that also shows the spinner again
HandleSearchChangeReloads(value) ==
  /\ Interactive
  /\ searchTerm' = value
  /\ isLoading' = TRUE
  /\ lastEvent' = Event("handleSearchChange", Null)
  /\ UNCHANGED <<scrolledTo, phase, activeSection, loadingError,
                 isMobileMenuOpen, copiedCodeId, timers, pendingWrites,
                 consoleErrors, now, history>>

\* handleSearchChange that drops the active section when the filter hides it
HandleSearchChangeDropsHidden(value) ==
  /\ Interactive
  /\ searchTerm' = value
  /\ activeSection' =
       IF \E k \in DOMAIN FilterSections(sections, value) :
            IdString(FilterSections(sections, value)[k].id) = activeSection
       THEN activeSection
       ELSE Null
  /\ lastEvent' = Event("handleSearchChange", Null)
  /\ UNCHANGED <<scrolledTo, phase, isLoading, loadingError,
                 isMobileMenuOpen, copiedCodeId, timers, pendingWrites,
                 consoleErrors, now, history>>

\* handleSearchChange(e): setState({ searchTerm: e.target.value })
HandleSearchChange(value) ==
  /\ Interactive
  /\ searchTerm' = value
  /\ lastEvent' = Event("handleSearchChange", Null)
  /\ UNCHANGED <<scrolledTo, phase, activeSection, isLoading, loadingError,
                 isMobileMenuOpen, copiedCodeId, timers, pendingWrites,
                 consoleErrors, now, history>>

\* a clearSearch that also forgets the active section
ClearSearchResetsActive ==
  /\ Interactive
  /\ searchTerm' = <<>>
  /\ activeSection' = Null
  /\ lastEvent' = Event("clearSearch", Null)
  /\ UNCHANGED <<scrolledTo, phase, isLoading, loadingError,
                 isMobileMenuOpen, copiedCodeId, timers, pendingWrites,
                 consoleErrors, now, history>>

\* clearSearch: setState({ searchTerm: "" })
ClearSearch ==
  /\ Interactive
  /\ searchTerm' = <<>>
  /\ lastEvent' = Event("clearSearch", Null)
  /\ UNCHANGED <<scrolledTo, phase, activeSection, isLoading, loadingError,
                 isMobileMenuOpen, copiedCodeId, timers, pendingWrites,
                 consoleErrors, now, history>>

\* copyToClipboard(text, codeId) up to its await: the clipboard write starts
CopyToClipboard(codeId) ==
  /\ Interactive
  /\ Len(callLog) < MaxCopies
  /\ pendingWrites' = Append(pendingWrites, [id |-> codeId, at |-> now])
  /\ callLog' = Append(callLog, [id |-> codeId, at |-> now])
  /\ lastEvent' = Event("copyToClipboard", codeId)
  /\ UNCHANGED <<scrolledTo, phase, uiState, timers, consoleErrors, now, successLog>>

\* the acknowledgment timer with twice the delay
NewAckTimerLate(codeId) == [deadline |-> now + 2 * AckDelay, id |-> codeId]

\* the timer copyToClipboard starts once the write has succeeded
NewAckTimer(codeId) == [deadline |-> now + AckDelay, id |-> codeId]

\* a success that shows the block asked for last, whichever write completed
ClipboardWriteResolvesByRequest(i) ==
  /\ i \in DOMAIN pendingWrites
  /\ now <= MaxTime
  /\ pendingWrites' = RemoveAt(pendingWrites, i)
  /\ copiedCodeId' =
       IF phase = "mounted" THEN callLog[Len(callLog)].id ELSE copiedCodeId
  /\ ackTimers' = Append(ackTimers, NewAckTimer(pendingWrites[i].id))
  /\ successLog' =
       IF phase = "mounted"
       THEN Append(successLog, [id |-> pendingWrites[i].id, at |-> now])
       ELSE successLog
  /\ lastEvent' = Event("writeResolved", pendingWrites[i].id)
  /\ UNCHANGED <<scrolledTo, phase, activeSection, searchTerm, isLoading, loadingError,
                 isMobileMenuOpen, loadingTimer, consoleErrors, now, callLog>>

\* a success that starts no acknowledgment timer
ClipboardWriteResolvesNoTimer(i) ==
  /\ i \in DOMAIN pendingWrites
  /\ now <= MaxTime
  /\ pendingWrites' = RemoveAt(pendingWrites, i)
  /\ copiedCodeId' =
       IF phase = "mounted" THEN pendingWrites[i].id ELSE copiedCodeId
  /\ successLog' =
       IF phase = "mounted"
       THEN Append(successLog, [id |-> pendingWrites[i].id, at |-> now])
       ELSE successLog
  /\ lastEvent' = Event("writeResolved", pendingWrites[i].id)
  /\ UNCHANGED <<scrolledTo, phase, activeSection, searchTerm, isLoading, loadingError,
                 isMobileMenuOpen, timers, consoleErrors, now, callLog>>

\* copyToClipboard after its await, the write having succeeded:
\* setState({ copiedCodeId: codeId }) and setTimeout(..., 2000);
\* setState does nothing once the component has unmounted
ClipboardWriteResolves(i) ==
  /\ i \in DOMAIN pendingWrites
  /\ now <= MaxTime
  /\ pendingWrites' = RemoveAt(pendingWrites, i)
  /\ copiedCodeId' =
       IF phase = "mounted" THEN pendingWrites[i].id ELSE copiedCodeId
  /\ ackTimers' = Append(ackTimers, NewAckTimer(pendingWrites[i].id))
  /\ successLog' =
       IF phase = "mounted"
       THEN Append(successLog, [id |-> pendingWrites[i].id, at |-> now])
       ELSE successLog
  /\ lastEvent' = Event("writeResolved", pendingWrites[i].id)
  /\ UNCHANGED <<scrolledTo, phase, activeSection, searchTerm, isLoading, loadingError,
                 isMobileMenuOpen, loadingTimer, consoleErrors, now, callLog>>

\* a catch that puts the failure of the copy on the error path
ClipboardWriteRejectsSurfaces(i) ==
  /\ i \in DOMAIN pendingWrites
  /\ now <= MaxTime
  /\ pendingWrites' = RemoveAt(pendingWrites, i)
  /\ consoleErrors' = consoleErrors + 1
  /\ loadingError' =
       IF phase = "mounted" THEN "Failed to copy text" ELSE loadingError
  /\ lastEvent' = Event("writeRejected", pendingWrites[i].id)
  /\ UNCHANGED <<scrolledTo, phase, activeSection, searchTerm, isLoading,
                 isMobileMenuOpen, copiedCodeId, timers, now, history>>

\* copyToClipboard with setState({ copiedCodeId }) moved before the await,
\* so that a rejected write leaves the acknowledgment showing
ClipboardWriteRejectsMarked(i) ==
  /\ i \in DOMAIN pendingWrites
  /\ now <= MaxTime
  /\ pendingWrites' = RemoveAt(pendingWrites, i)
  /\ consoleErrors' = consoleErrors + 1
  /\ copiedCodeId' =
       IF phase = "mounted" THEN pendingWrites[i].id ELSE copiedCodeId
  /\ lastEvent' = Event("writeRejected", pendingWrites[i].id)
  /\ UNCHANGED <<scrolledTo, phase, activeSection, searchTerm, isLoading, loadingError,
                 isMobileMenuOpen, timers, now, history>>

\* copyToClipboard's catch: console.error("Failed to copy text:", err)
ClipboardWriteRejects(i) ==
  /\ i \in DOMAIN pendingWrites
  /\ now <= MaxTime
  /\ pendingWrites' = RemoveAt(pendingWrites, i)
  /\ consoleErrors' = consoleErrors + 1
  /\ lastEvent' = Event("writeRejected", pendingWrites[i].id)
  /\ UNCHANGED <<scrolledTo, phase, uiState, timers, now, history>>

\* an acknowledgment timer callback that clears nothing
AckTimerKeeps(timer) == copiedCodeId

\* what the acknowledgment timer's callback stores:
\* setState({ copiedCodeId: null })
AckTimerResult(timer) == Null

\* the callback of the oldest acknowledgment timer, its delay having elapsed
AckTimerFire ==
  /\ ackTimers # <<>>
  /\ Due(Head(ackTimers).deadline)
  /\ ackTimers' = Tail(ackTimers)
  /\ copiedCodeId' =
       IF phase = "mounted" THEN AckTimerResult(Head(ackTimers))
       ELSE copiedCodeId
  /\ lastEvent' = Event("ackTimer", Head(ackTimers).id)
  /\ UNCHANGED <<scrolledTo, phase, activeSection, searchTerm, isLoading, loadingError,
                 isMobileMenuOpen, loadingTimer, pendingWrites, consoleErrors,
                 now, history>>

\* the clock: time passes up to the next deadline, never beyond it, and
\* stops once every timer that can have been started has had its delay
Tick ==
  /\ phase # "constructed"
  /\ \A d \in TimerDeadlines : now < d
  /\ now <= MaxTime + AckDelay
  /\ now' = Min({now + TickMs} \cup TimerDeadlines)
  /\ UNCHANGED <<scrolledTo, phase, uiState, timers, pendingWrites, consoleErrors,
                 history, lastEvent>>

Next ==
  \/ ComponentDidMount
  \/ LoadingTimerFire
  \/ ComponentWillUnmount
  \/ \E id \in NavInputs : ScrollToSection(id)
  \/ ToggleMobileMenu
  \/ CloseMobileMenu
  \/ \E value \in SearchInputs : HandleSearchChange(value)
  \/ ClearSearch
  \/ \E codeId \in CodeIds : CopyToClipboard(codeId)
  \/ \E i \in 1..MaxCopies : ClipboardWriteResolves(i)
  \/ \E i \in 1..MaxCopies : ClipboardWriteRejects(i)
  \/ AckTimerFire
  \/ Tick

Spec == Init /\ [][Next]_vars

\* timers are delivered and time passes
Fairness ==
  /\ WF_vars(ComponentDidMount)
  /\ WF_vars(Tick)
  /\ WF_vars(LoadingTimerFire)
  /\ WF_vars(AckTimerFire)

FairSpec == Spec /\ Fairness

\* ------------------------------------------------- the reserved error path

\* the values a load failure stores in loadingError
ErrorMessages == {"Failed to fetch"}

\* a load failure (no code of the component produces one): Loading -> Error
SetLoadingError(msg) ==
  /\ phase = "mounted"
  /\ isLoading
  /\ now <= MaxTime
  /\ isLoading' = FALSE
  /\ loadingError' = msg
  /\ lastEvent' = Event("loadFailed", msg)
  /\ UNCHANGED <<scrolledTo, phase, activeSection, searchTerm, isMobileMenuOpen,
                 copiedCodeId, timers, pendingWrites, consoleErrors, now,
                 history>>

\* the Retry button: setState({ isLoading: true, loadingError: null })
Retry ==
  /\ phase = "mounted"
  /\ View = "error"
  /\ now <= MaxTime
  /\ isLoading' = TRUE
  /\ loadingError' = Null
  /\ lastEvent' = Event("retry", Null)
  /\ UNCHANGED <<scrolledTo, phase, activeSection, searchTerm, isMobileMenuOpen,
                 copiedCodeId, timers, pendingWrites, consoleErrors, now,
                 history>>

NextErr ==
  \/ Next
  \/ \E msg \in ErrorMessages : SetLoadingError(msg)
  \/ Retry

SpecErr == Init /\ [][NextErr]_vars

\* ------------------------------------------------------- the search inputs

\* the search box holds at most this many typed characters
MaxQueryLen == 2

\* the characters typed into the search box
QueryChars == {"o", "v", "e", "O", "s", " ", ".", "(", "*", "["}

\* every text of at most MaxQueryLen typed characters
ShortQueries == UNION {[1..n -> QueryChars] : n \in 0..MaxQueryLen}

\* longer search terms
LongQueries ==
  { <<"o", "v", "e", "r">>, <<"O", "V", "E", "R">>, <<" ", "o", "v", "e", "r">>,
    <<"a", ".", "b">>, <<"k", "8", "s">>, <<"c", "i", "c", "d">>,
    <<"y", "a", "m", "l">>, <<" ", " ", " ">> }

SearchQueries == ShortQueries \cup LongQueries

\* the viewer as it is when the load timer has fired: Ready, nothing touched
InitSearch ==
  /\ phase = "mounted"
  /\ activeSection = Null
  /\ searchTerm = <<>>
  /\ isLoading = FALSE
  /\ loadingError = Null
  /\ isMobileMenuOpen = FALSE
  /\ copiedCodeId = Null
  /\ loadingTimer = [status |-> "fired", deadline |-> LoadDelay]
  /\ ackTimers = <<>>
  /\ pendingWrites = <<>>
  /\ consoleErrors = 0
  /\ scrolledTo = Null
  /\ now = LoadDelay
  /\ callLog = <<>>
  /\ successLog = <<>>
  /\ lastEvent = Event("loadingTimer", Null)

\* the search box: any text is typed or pasted, or the box is cleared
NextSearch ==
  \/ \E value \in SearchQueries : HandleSearchChange(value)
  \/ ClearSearch

SpecSearch == InitSearch /\ [][NextSearch]_vars

\* ------------------------------------------------------------------- claims

\* the most recent clipboard write that succeeded on the mounted viewer
LastSuccess == successLog[Len(successLog)]

\* a step in which an acknowledgment timer's callback runs (nothing else
\* removes an acknowledgment timer)
AckTimerRan == Len(ackTimers') < Len(ackTimers)

\* C1: when a copy of c1 succeeds and a copy of another block c2 succeeds
\* 500 ms later, with no copy after it, copiedCodeId is c2 until 2000 ms
\* after the second success (the first copy's timer does not clear it) and
\* is absent after that.
C1_SecondAckOutlivesFirstTimer ==
  (/\ phase = "mounted"
   /\ Len(successLog) >= 2
   /\ successLog[Len(successLog) - 1].id # LastSuccess.id
   /\ LastSuccess.at = successLog[Len(successLog) - 1].at + 500)
  => /\ now < LastSuccess.at + AckDelay => copiedCodeId = LastSuccess.id
     /\ now > LastSuccess.at + AckDelay => copiedCodeId = Null

\* C2: when the acknowledgment timer of a copy of codeId fires, copiedCodeId
\* becomes absent if it still equals codeId and is left unchanged if it holds
\* another codeId.
C2_AckTimerClearsOnlyItsOwn ==
  [][(phase = "mounted" /\ AckTimerRan)
     => copiedCodeId' =
          IF copiedCodeId = Head(ackTimers).id THEN Null ELSE copiedCodeId]_vars

\* C3: in every reachable state at most one acknowledgment timer is pending.
C3_AtMostOneAckTimer == Len(ackTimers) <= 1

\* C4: the unmount cancels every acknowledgment timer that is pending, and
\* once the viewer has unmounted no acknowledgment timer callback runs.
C4_NoAckTimerAfterUnmount ==
  [][/\ (phase = "mounted" /\ phase' = "unmounted") => ackTimers' = <<>>
     /\ phase = "unmounted" => ~AckTimerRan]_vars

\* C4, the failing case: an acknowledgment timer callback has just run on the
\* unmounted viewer, for a copy that had succeeded while it was mounted.
C4_Witness ==
  /\ phase = "unmounted"
  /\ lastEvent.op = "ackTimer"
  /\ successLog # <<>>
  /\ now = LastSuccess.at + AckDelay
  /\ copiedCodeId = LastSuccess.id

\* C5: unmounting cancels a load timer that has not fired, and after the
\* unmount the load timer never fires and isLoading is not changed.
C5_LoadTimerCancelledOnUnmount ==
  [][/\ phase' = "unmounted" => loadingTimer'.status \in {"cancelled", "fired"}
     /\ phase = "unmounted" => loadingTimer' = loadingTimer /\ isLoading' = isLoading
    ]_vars

\* C5 witness: unmounted before the load timer fired, the 1000 ms have passed
\* and the viewer is still as the unmount left it.
C5_Witness ==
  /\ phase = "unmounted"
  /\ loadingTimer.status = "cancelled"
  /\ now > loadingTimer.deadline
  /\ isLoading

\* C6: after retry() the viewer is Loading with no error and a load timer is
\* pending again (so that it reaches Ready).
C6_RetryRestartsLoadTimer ==
  lastEvent.op = "retry"
    => isLoading /\ loadingError = Null /\ loadingTimer.status = "pending"

\* C7: mounting leaves the viewer Loading with a pending load timer due
\* 1000 ms later; the viewer is not Ready before that timer has fired, the
\* timer's firing makes isLoading false, and a viewer that stays mounted
\* eventually is Ready.
C7_MountLoadsThenReady ==
  /\ [][phase = "constructed" /\ phase' = "mounted"
        => /\ isLoading'
           /\ loadingTimer' = [status |-> "pending", deadline |-> now' + LoadDelay]
      ]_vars
  /\ [](loadingTimer.status # "fired" => View # "docs")
  /\ [][phase = "mounted" /\ loadingTimer.status = "pending"
          /\ loadingTimer'.status = "fired"
        => ~isLoading']_vars
  /\ (phase = "mounted" ~> (View = "docs" \/ phase = "unmounted"))

\* C7 witness: the mounted viewer is Ready, its load timer having fired at
\* 1000 ms.
C7_Witness ==
  /\ phase = "mounted"
  /\ View = "docs"
  /\ loadingTimer = [status |-> "fired", deadline |-> LoadDelay]
  /\ now = LoadDelay

\* C8: on a mounted viewer, right after the last successful clipboard write
\* copiedCodeId is that write's codeId, and once more than 2000 ms have
\* passed since it copiedCodeId is absent.
C8_AckShownThenCleared ==
  (phase = "mounted" /\ successLog # <<>>)
  => /\ lastEvent = Event("writeResolved", LastSuccess.id)
          => copiedCodeId = LastSuccess.id
     /\ now > LastSuccess.at + AckDelay => copiedCodeId = Null

\* C8 witness: one copy was made, it succeeded, and its window has elapsed.
C8_Witness ==
  /\ phase = "mounted"
  /\ Len(callLog) = 1
  /\ Len(successLog) = 1
  /\ now > LastSuccess.at + AckDelay
  /\ copiedCodeId = Null

\* C9: a rejected clipboard write changes no field of the UI state and starts
\* no timer; it is logged once and the viewer stays as it is.
C9_RejectedWriteOnlyLogs ==
  [][(Len(pendingWrites') < Len(pendingWrites)
        /\ lastEvent'.op = "writeRejected")
     => /\ UNCHANGED uiState
        /\ UNCHANGED timers
        /\ UNCHANGED phase
        /\ consoleErrors' = consoleErrors + 1]_vars

\* C9 witness: a write was rejected on the mounted viewer: it is logged and
\* nothing shows as copied.
C9_Witness ==
  /\ phase = "mounted"
  /\ lastEvent.op = "writeRejected"
  /\ consoleErrors = 1
  /\ copiedCodeId = Null
  /\ ackTimers = <<>>
  /\ loadingError = Null

\* C10 as stated: on a mounted viewer copiedCodeId, if present, is the id of
\* a block whose copy() call was made within the last 2000 ms.
C10_WithinWindowOfCall ==
  (phase = "mounted" /\ copiedCodeId # Null)
  => \E i \in DOMAIN callLog :
       callLog[i].id = copiedCodeId /\ now - callLog[i].at <= AckDelay

\* C10 as amended: on a mounted viewer copiedCodeId, if present, is the id of
\* a block that initiated a copy whose clipboard write succeeded within the
\* last 2000 ms.
C10_WithinWindowOfSuccess ==
  (phase = "mounted" /\ copiedCodeId # Null)
  => \E i \in DOMAIN successLog :
       /\ successLog[i].id = copiedCodeId
       /\ now - successLog[i].at <= AckDelay
       /\ \E j \in DOMAIN callLog :
            callLog[j].id = copiedCodeId /\ callLog[j].at <= successLog[i].at

\* C10 witness: the acknowledgment still shows although every copy() call
\* is more than 2000 ms old (the write took time to complete).
C10_Witness ==
  /\ phase = "mounted"
  /\ copiedCodeId # Null
  /\ \A i \in DOMAIN callLog : now - callLog[i].at > AckDelay

\* C11: once the viewer is Ready (isLoading false, loadingError absent) no
\* step of the same mount makes it Loading again or puts it in Error.
C11_ReadyStaysReady ==
  [][(~isLoading /\ loadingError = Null)
     => (~isLoading' /\ loadingError' = Null)]_vars

\* C11 witness: the mounted viewer is still Ready after navigation, search,
\* a menu toggle, a copy and the firing of its acknowledgment timer.
C11_Witness ==
  /\ phase = "mounted"
  /\ View = "docs"
  /\ lastEvent.op = "ackTimer"
  /\ activeSection # Null
  /\ searchTerm # <<>>
  /\ isMobileMenuOpen
  /\ now > LoadDelay

\* the load phases that hold in the current state
LoadPhases ==
  (IF isLoading THEN {"loading"} ELSE {})
    \cup (IF loadingError # Null THEN {"error"} ELSE {})
    \cup (IF ~isLoading /\ loadingError = Null THEN {"ready"} ELSE {})

\* C12: in every reachable state exactly one of loading (isLoading), error
\* (loadingError present) and ready (neither) holds; isLoading and a present
\* loadingError never hold together.
C12_ExactlyOneLoadPhase ==
  /\ Cardinality(LoadPhases) = 1
  /\ ~(isLoading /\ loadingError # Null)

\* C12 witness: the load timer has just taken the mounted viewer from
\* loading to ready.
C12_Witness ==
  /\ phase = "mounted"
  /\ lastEvent.op = "loadingTimer"
  /\ LoadPhases = {"ready"}

\* the ids of the registry, as strings
SectionIds == {IdString(sections[i].id) : i \in DOMAIN sections}

\* C13: in every reachable state activeSection is absent or the id of a
\* section of the registry.
C13_ActiveSectionIsKnown == activeSection = Null \/ activeSection \in SectionIds

\* C13 witness: a section is active and the last navigation was to an id
\* that is no section.
C13_Witness ==
  /\ activeSection = "k8s-basics"
  /\ lastEvent.op = "scrollToSection"
  /\ lastEvent.id \notin SectionIds

\* C14: after scrollToSection(id) for an id that has an anchor, the scroll
\* to that anchor has been requested, activeSection is id and the mobile
\* menu is closed.
C14_NavigateSetsActiveAndCloses ==
  (lastEvent.op = "scrollToSection" /\ lastEvent.id \in AnchorIds)
  => /\ scrolledTo = lastEvent.id
     /\ activeSection = lastEvent.id
     /\ ~isMobileMenuOpen

\* C14 witness: navigation to a second section has replaced the first.
C14_Witness ==
  /\ lastEvent = Event("scrollToSection", "k8s-basics")
  /\ activeSection = "k8s-basics"
  /\ scrolledTo = "k8s-basics"
  /\ ~isMobileMenuOpen
  /\ searchTerm # <<>>

\* C15: scrollToSection(id) for an id that has no anchor changes no field
\* of the UI state, requests no scroll, and leaves the viewer mounted.
C15_NavigationMissIsNoOp ==
  [][(lastEvent'.op = "scrollToSection" /\ lastEvent'.id \notin AnchorIds)
     => /\ UNCHANGED uiState
        /\ UNCHANGED scrolledTo
        /\ UNCHANGED phase
        /\ UNCHANGED consoleErrors]_vars

\* C15 witness: after a navigation to an id with no anchor the active
\* section is still set and the mobile menu is still open.
C15_Witness ==
  /\ lastEvent = Event("scrollToSection", "no-such-anchor")
  /\ activeSection = "overview"
  /\ scrolledTo = "overview"
  /\ isMobileMenuOpen

\* a step that is a call of toggleMobileMenu (the clock does not move in it,
\* and the event records the value the call found)
ToggleStep ==
  /\ lastEvent' = Event("toggleMobileMenu", MenuName(isMobileMenuOpen))
  /\ now' = now

\* C16: toggleMobileMenu flips isMobileMenuOpen, and a second call that
\* follows a first with no other operation between restores the value the
\* first call found.
C16_ToggleTwiceRestores ==
  [][ToggleStep
     => /\ isMobileMenuOpen' = ~isMobileMenuOpen
        /\ lastEvent.op = "toggleMobileMenu"
             => isMobileMenuOpen' = (lastEvent.id = "open")]_vars

\* C16 witness: the menu, opened by a toggle, has been closed by a toggle.
C16_Witness ==
  /\ lastEvent = Event("toggleMobileMenu", "open")
  /\ ~isMobileMenuOpen
  /\ activeSection = Null

\* the registry of the scenario of the specification
ScenarioRegistry ==
  << [id |-> <<"o", "v", "e", "r", "v", "i", "e", "w">>,
      title |-> <<"P", "r", "o", "j", "e", "c", "t", " ",
                  "O", "v", "e", "r", "v", "i", "e", "w">>],
     [id |-> <<"k", "8", "s", "-", "b", "a", "s", "i", "c", "s">>,
      title |-> <<"K", "u", "b", "e", "r", "n", "e", "t", "e", "s", " ",
                  "B", "a", "s", "i", "c", "s">>] >>

\* a registry whose ids and titles hold pattern-special characters
SpecialRegistry ==
  << [id |-> <<"a", ".", "b">>,
      title |-> <<"A", ".", "B", " ", "(", "v", "*", ")">>],
     [id |-> <<"a", "o", "b">>,
      title |-> <<"O", "v", "e", "r", " ", "[", "e", "]">>] >>

\* the registries the filter is applied to
Registries == {sections, ScenarioRegistry, SpecialRegistry, <<>>}

\* a is b with some of its elements left out, the rest in b's order
RECURSIVE IsSubsequence(_, _)
IsSubsequence(a, b) ==
  IF a = <<>> THEN TRUE
  ELSE IF b = <<>> THEN FALSE
  ELSE IF Head(a) = Head(b) THEN IsSubsequence(Tail(a), Tail(b))
  ELSE IsSubsequence(a, Tail(b))

\* term occurs in text, literally
Occurs(text, term) ==
  \E i \in 1..(Len(text) - Len(term) + 1) :
    SubSeq(text, i, i + Len(term) - 1) = term

\* the query occurs literally in the lowercased title or id of the section
OccursInSection(section, query) ==
  \/ Occurs(ToLowerCase(section.title), ToLowerCase(query))
  \/ Occurs(ToLowerCase(section.id), ToLowerCase(query))

\* the search term is empty or holds white space only
BlankQuery == \A i \in DOMAIN searchTerm : searchTerm[i] = " "

\* C17: for every search term and registry, the filtered list is a
\* subsequence of the registry, in the registry's order.
C17_FilterIsSubsequence ==
  \A S \in Registries : IsSubsequence(FilterSections(S, searchTerm), S)

\* C17 witness: a search term that keeps several sections and drops others.
C17_Witness ==
  /\ searchTerm = <<"s">>
  /\ Len(GetFilteredSections) > 2
  /\ Len(GetFilteredSections) < Len(sections)
  /\ GetFilteredSections[1] = sections[2]

\* C18: for every search term that is empty or white space only, the
\* filtered list is the whole registry in its order.
C18_BlankQueryKeepsAll ==
  BlankQuery => \A S \in Registries : FilterSections(S, searchTerm) = S

\* C18 witness: three spaces typed, the whole registry listed.
C18_Witness ==
  /\ searchTerm = <<" ", " ", " ">>
  /\ GetFilteredSections = sections

\* C19: for every search term that is not blank, a section is in the
\* filtered list exactly when its lowercased title or id contains the
\* lowercased term; "over" on the scenario registry keeps overview only.
C19_FilterKeepsExactlyMatches ==
  ~BlankQuery
  => /\ \A S \in Registries : \A k \in DOMAIN S :
          (\E j \in DOMAIN FilterSections(S, searchTerm) :
             FilterSections(S, searchTerm)[j] = S[k])
            <=> OccursInSection(S[k], searchTerm)
     /\ searchTerm = <<"o", "v", "e", "r">>
          => FilterSections(ScenarioRegistry, searchTerm)
               = <<ScenarioRegistry[1]>>

\* C19 witness: a term that an id contains and no title does keeps that
\* section alone.
C19_Witness ==
  /\ searchTerm = <<"k", "8", "s">>
  /\ GetFilteredSections = <<sections[3]>>
  /\ ~Occurs(ToLowerCase(sections[3].title), searchTerm)

\* the characters that have a meaning in a regular expression
PatternSpecial ==
  {".", "*", "+", "?", "^", "$", "{", "}", "(", ")", "|", "[", "]", "\\"}

\* C20: for every search term that holds a pattern-special character, the
\* filter yields a list of sections of the registry, each of which has the
\* term literally in its title or id.
C20_SpecialCharsAreLiteral ==
  (~BlankQuery /\ \E i \in DOMAIN searchTerm : searchTerm[i] \in PatternSpecial)
  => \A S \in Registries :
       /\ IsSubsequence(FilterSections(S, searchTerm), S)
       /\ \A j \in DOMAIN FilterSections(S, searchTerm) :
            OccursInSection(FilterSections(S, searchTerm)[j], searchTerm)

\* C20 witness: "a.b" keeps the section that holds "a.b" and not the one
\* that holds "aob", and keeps nothing of the viewer's registry.
C20_Witness ==
  /\ searchTerm = <<"a", ".", "b">>
  /\ FilterSections(SpecialRegistry, searchTerm) = <<SpecialRegistry[1]>>
  /\ GetFilteredSections = <<>>

\* the texts highlighted: the titles of every registry, and the empty text
HighlightTexts ==
  UNION {{S[k].title : k \in DOMAIN S} : S \in Registries} \cup {<<>>}

\* the contents of the segments, joined in order
RECURSIVE Concat(_)
Concat(segs) ==
  IF segs = <<>> THEN <<>> ELSE Head(segs).content \o Concat(Tail(segs))

\* the segments of gap \o rest when rest is cut at every occurrence of the
\* term read as literal text, case aside, from left to right: non-matching
\* and matching segments in turn, gap being the non-matching text read so far
RECURSIVE LiteralSegments(_, _, _)
LiteralSegments(rest, term, gap) ==
  IF Len(rest) < Len(term) THEN <<Segment(gap \o rest, FALSE)>>
  ELSE IF StartsWith(ToLowerCase(rest), ToLowerCase(term))
       THEN <<Segment(gap, FALSE), Segment(SubSeq(rest, 1, Len(term)), TRUE)>>
            \o LiteralSegments(SubSeq(rest, Len(term) + 1, Len(rest)), term, <<>>)
       ELSE LiteralSegments(Tail(rest), term, Append(gap, Head(rest)))

\* the search term holds a pattern-special character and is not blank
SpecialQuery ==
  ~BlankQuery /\ \E i \in DOMAIN searchTerm : searchTerm[i] \in PatternSpecial

\* C21: for every text and every search term that holds a pattern-special
\* character, highlightText does not fail, and every segment it marks is an
\* occurrence of the term as literal text.
C21_HighlightTakesTermLiterally ==
  SpecialQuery
  => \A text \in HighlightTexts :
       /\ HighlightText(text, searchTerm).ok
       /\ \A j \in DOMAIN HighlightText(text, searchTerm).segments :
            HighlightText(text, searchTerm).segments[j].isMatch
            => ToLowerCase(HighlightText(text, searchTerm).segments[j].content)
               = ToLowerCase(searchTerm)

\* C22: for every text and every search term, highlightText returns segments
\* whose contents, joined in order, are the text.
C22_SegmentsRebuildText ==
  \A text \in HighlightTexts :
    /\ HighlightText(text, searchTerm).ok
    /\ Concat(HighlightText(text, searchTerm).segments) = text

\* C23: for every search term that is not blank, highlightText cuts the text
\* at every occurrence of the term, case aside, from left to right:
\* non-matching and matching segments in turn, a match in the casing of the
\* text, an empty non-matching segment between two adjacent matches.
C23_SplitsAtEveryOccurrence ==
  ~BlankQuery
  => \A text \in HighlightTexts :
       HighlightText(text, searchTerm)
       = Returned(LiteralSegments(text, searchTerm, <<>>))

\* C24: for a search term that is empty or white space only, highlightText
\* returns one non-matching segment that is the whole text.
C24_BlankQueryOneSegment ==
  BlankQuery
  => \A text \in HighlightTexts :
       HighlightText(text, searchTerm) = Returned(<<Segment(text, FALSE)>>)

\* C24 witness: a search term of white space, and a title that holds white
\* space returned as one unmarked segment.
C24_Witness ==
  /\ BlankQuery
  /\ searchTerm # <<>>
  /\ Includes(sections[1].title, searchTerm)
  /\ HighlightText(sections[1].title, searchTerm).segments
     = <<Segment(sections[1].title, FALSE)>>

\* C25: activeSection changes only in a scrollToSection whose target has an
\* anchor, which stores that target; every other event (menu, search, copy,
\* acknowledgment timer, load timer, retry, unmount) leaves it unchanged.
C25_ActiveSectionOnlyByNavigation ==
  [][activeSection' # activeSection
     => /\ lastEvent'.op = "scrollToSection"
        /\ lastEvent'.id \in AnchorIds
        /\ activeSection' = lastEvent'.id]_vars

\* C25 witness: a section was made active, then the menu, the search field
\* and a copy with its acknowledgment timer acted, and it is still active.
C25_Witness ==
  /\ activeSection = "overview"
  /\ lastEvent.op = "ackTimer"
  /\ searchTerm # <<>>
  /\ isMobileMenuOpen

\* C26: the component never takes the error path by itself: loadingError is
\* absent in every reachable state, so the error view is never shown and its
\* Retry button can never be pressed.
C26_ErrorPathNeverTaken ==
  /\ loadingError = Null
  /\ View # "error"
  /\ ~ENABLED Retry

\* C26 witness: a clipboard write has failed in the ready viewer, and no
\* loading error is held.
C26_Witness ==
  /\ phase = "mounted"
  /\ ~isLoading
  /\ consoleErrors > 0
  /\ loadingError = Null

\* an event of the user on the document: navigation, menu, search or copy
UserEvent ==
  \/ \E id \in NavInputs : ScrollToSection(id)
  \/ ToggleMobileMenu
  \/ CloseMobileMenu
  \/ \E value \in SearchInputs : HandleSearchChange(value)
  \/ ClearSearch
  \/ \E codeId \in CodeIds : CopyToClipboard(codeId)

\* C27: while the spinner or the error view is shown no user event is
\* enabled, and activeSection, searchTerm, isMobileMenuOpen and copiedCodeId
\* have their initial values, no copy having been asked for.
C27_LoadPhaseGatesInteraction ==
  View # "docs"
  => /\ ~ENABLED UserEvent
     /\ activeSection = Null
     /\ searchTerm = <<>>
     /\ ~isMobileMenuOpen
     /\ copiedCodeId = Null
     /\ callLog = <<>>

\* C27 witness: the mounted viewer shows the spinner again after a retry,
\* time having passed since the mount.
C27_Witness ==
  /\ phase = "mounted"
  /\ View = "spinner"
  /\ lastEvent.op = "retry"
  /\ now > 0
  /\ activeSection = Null

\* C28: after closeMobileMenu the menu is closed, whether it was open or
\* closed (and so after a second closeMobileMenu too), and no other field of
\* the UI state has changed.
C28_CloseMenuOnlyClosesMenu ==
  [][lastEvent'.op = "closeMobileMenu"
     => /\ ~isMobileMenuOpen'
        /\ UNCHANGED <<activeSection, searchTerm, isLoading, loadingError,
                       copiedCodeId>>]_vars

\* C28 witness: closeMobileMenu has closed an open menu, with an active
\* section, a search term and an acknowledgment in place.
C28_Witness ==
  /\ lastEvent = Event("closeMobileMenu", "open")
  /\ ~isMobileMenuOpen
  /\ activeSection # Null
  /\ searchTerm # <<>>
  /\ copiedCodeId # Null

\* C29: a clipboard write that completes successfully after unmount changes
\* no field of the UI state and starts no acknowledgment timer.
C29_LateWriteStartsNoTimer ==
  [][(/\ phase = "unmounted"
      /\ lastEvent'.op = "writeResolved"
      /\ Len(pendingWrites') < Len(pendingWrites))
     => UNCHANGED uiState /\ UNCHANGED ackTimers]_vars

\* C30: when a copy of a block succeeds while the acknowledgment of an
\* earlier copy of the same block is showing, copiedCodeId is that block
\* until 2000 ms after the second success; the first copy's timer does not
\* clear it.
C30_RecopyKeepsFullWindow ==
  (/\ phase = "mounted"
   /\ Len(successLog) >= 2
   /\ successLog[Len(successLog) - 1].id = LastSuccess.id
   /\ LastSuccess.at < successLog[Len(successLog) - 1].at + AckDelay
   /\ now < LastSuccess.at + AckDelay)
  => copiedCodeId = LastSuccess.id

\* C31: on a mounted viewer, whenever a clipboard write succeeds, copiedCodeId
\* becomes the codeId of that write, whatever the order in which the copies
\* were asked for; so with two writes in flight it holds, once both have
\* succeeded, the codeId of the one that completed last.
C31_CompletionOrderDecides ==
  [][(/\ phase = "mounted"
      /\ lastEvent'.op = "writeResolved"
      /\ Len(pendingWrites') < Len(pendingWrites))
     => /\ copiedCodeId' = lastEvent'.id
        /\ (Len(successLog') = Len(callLog) /\ pendingWrites' = <<>>)
           => copiedCodeId' = successLog'[Len(successLog')].id]_vars

\* C31 witness: two copies of different blocks were in flight at once, the
\* one asked for last completed first, and the block asked for first shows.
C31_Witness ==
  /\ phase = "mounted"
  /\ Len(callLog) = 2
  /\ callLog[1].at = callLog[2].at
  /\ callLog[1].id # callLog[2].id
  /\ Len(successLog) = 2
  /\ successLog[1].id = callLog[2].id
  /\ successLog[2].id = callLog[1].id
  /\ lastEvent = Event("writeResolved", callLog[1].id)
  /\ copiedCodeId = callLog[1].id

\* C32: on a mounted viewer copiedCodeId is present only while a clipboard
\* write has succeeded no more than 2000 ms ago and a timer that clears it
\* by the end of those 2000 ms is pending; so with no further success it is
\* absent once the 2000 ms have passed, failed copies or not.
C32_AckNeverSticks ==
  (phase = "mounted" /\ copiedCodeId # Null)
  => /\ successLog # <<>>
     /\ now <= LastSuccess.at + AckDelay
     /\ \E i \in DOMAIN ackTimers :
          ackTimers[i].deadline <= LastSuccess.at + AckDelay

\* C32 witness: one copy failed and one succeeded, the 2000 ms since the
\* success have passed, the timer has run and no acknowledgment shows.
C32_Witness ==
  /\ phase = "mounted"
  /\ consoleErrors = 1
  /\ Len(successLog) = 1
  /\ now >= LastSuccess.at + AckDelay
  /\ lastEvent.op = "ackTimer"
  /\ ackTimers = <<>>
  /\ copiedCodeId = Null

\* C33: the sidebar list has one entry for each section the filter returns
\* for the search term; with the registry of the viewer, for every search
\* term, those with "(" or "[" included, no entry fails to render and each
\* shows its section's title.
C33_SidebarRenderNeverFails ==
  /\ Len(RenderNav) = Len(GetFilteredSections)
  /\ \A k \in DOMAIN RenderNav :
       /\ RenderNav[k].ok
       /\ Concat(RenderNav[k].segments) = GetFilteredSections[k].title

\* C33 witness: the search term is "(", on which highlightText throws for
\* any title, and the filter returns no section, so the list is empty.
C33_Witness ==
  /\ searchTerm = <<"(">>
  /\ ~HighlightText(sections[1].title, searchTerm).ok
  /\ GetFilteredSections = <<>>
  /\ RenderNav = <<>>

\* the rendered entry holds a marked segment
HasMark(entry) == \E j \in DOMAIN entry.segments : entry.segments[j].isMatch

\* the lowercased title of the section holds the lowercased search term
TitleHoldsTerm(section) ==
  Includes(ToLowerCase(section.title), ToLowerCase(searchTerm))

C35_SearchChangesOnlySearchTerm ==
  [][lastEvent'.op \in {"handleSearchChange", "clearSearch"}
     => /\ UNCHANGED <<isLoading, loadingError, isMobileMenuOpen,
                       copiedCodeId, activeSection>>
        /\ lastEvent'.op = "clearSearch"
           => FilterSections(sections, searchTerm') = sections]_vars

\* C35 witness: Kubernetes Basics is active, the menu is open and an
\* acknowledgment shows; the search term was then changed to one whose
\* filtered list does not hold the active section.
C35_Witness ==
  /\ lastEvent.op = "handleSearchChange"
  /\ activeSection = "k8s-basics"
  /\ isMobileMenuOpen
  /\ copiedCodeId # Null
  /\ GetFilteredSections # <<>>
  /\ \A k \in DOMAIN GetFilteredSections :
       IdString(GetFilteredSections[k].id) # activeSection

====
